---------------------------- MODULE Spec2Model ----------------------------
(* Model of docker-db (src/src/lib.rs): the Postgres container guard.      *)
(*                                                                         *)
(* Text is a sequence of lexemes (strings).  The lexemes " " and "\n" are  *)
(* whitespace; every other lexeme is a run of non-whitespace characters.   *)
(* Adjacent non-whitespace lexemes form one token, as adjacent characters  *)
(* do.  The bytes of a process's standard output are a text plus a flag    *)
(* saying whether the bytes are valid UTF-8.                               *)
EXTENDS Integers, Sequences, FiniteSets, TLC

(***************************************************************************)
(* Bounds of the model                                                     *)
(***************************************************************************)
NumTasks == 2

MaxPad == 1

MaxTokens == 2

(* u16::MAX, the largest port a SocketAddr holds *)
U16Max == 65535

(***************************************************************************)
(* Result<T, Error>                                                        *)
(***************************************************************************)
Ok(v) == [ok |-> TRUE, val |-> <<v>>, err |-> "none"]

Err(e) == [ok |-> FALSE, val |-> <<>>, err |-> e]

Unwrap(r) == r.val[1]

(***************************************************************************)
(* Text helpers (str::trim, str::split, str::split_whitespace)             *)
(***************************************************************************)
Whitespace == {" ", "\n"}

IsWs(l) == l \in Whitespace

RECURSIVE TrimStart(_)
TrimStart(s) ==
    IF s = <<>> THEN <<>>
    ELSE IF IsWs(Head(s)) THEN TrimStart(Tail(s)) ELSE s

RECURSIVE TrimEnd(_)
TrimEnd(s) ==
    IF s = <<>> THEN <<>>
    ELSE IF IsWs(s[Len(s)]) THEN TrimEnd(SubSeq(s, 1, Len(s) - 1)) ELSE s

Trim(s) == TrimEnd(TrimStart(s))

(* s.split(sep): the pieces between the occurrences of sep, empty pieces kept *)
RECURSIVE SplitOn(_, _, _)
SplitOn(s, sep, cur) ==
    IF s = <<>> THEN <<cur>>
    ELSE IF Head(s) = sep THEN <<cur>> \o SplitOn(Tail(s), sep, <<>>)
    ELSE SplitOn(Tail(s), sep, Append(cur, Head(s)))

SplitSpace(s) == SplitOn(s, " ", <<>>)

(* s.split_whitespace(): the maximal runs of non-whitespace, none empty *)
RECURSIVE SplitWs(_, _)
SplitWs(s, cur) ==
    IF s = <<>> THEN (IF cur = <<>> THEN <<>> ELSE <<cur>>)
    ELSE IF IsWs(Head(s))
         THEN (IF cur = <<>> THEN <<>> ELSE <<cur>>) \o SplitWs(Tail(s), <<>>)
         ELSE SplitWs(Tail(s), Append(cur, Head(s)))

SplitWhitespace(s) == SplitWs(s, <<>>)

MapTrim(parts) == [i \in 1..Len(parts) |-> Trim(parts[i])]

NonEmpty(p) == p # <<>>

FilterNonEmpty(parts) == SelectSeq(parts, NonEmpty)

(***************************************************************************)
(* str::parse::<SocketAddr> and SocketAddr's Display                       *)
(***************************************************************************)
IPv4Lits == {"0.0.0.0", "127.0.0.1"}

IPv6Lits == {"::"}

(* decimal numerals that occur in the model and their values *)
DecimalValue ==
    ("12345" :> 12345) @@ ("54321" :> 54321) @@ ("55837" :> 55837) @@
    ("70000" :> 70000) @@ ("5432" :> 5432)

IsPort(l) == l \in DOMAIN DecimalValue /\ DecimalValue[l] <= U16Max

ParseSocketAddr(tok) ==
    IF Len(tok) = 3 /\ tok[1] \in IPv4Lits /\ tok[2] = ":" /\ IsPort(tok[3])
    THEN Ok([ip |-> tok[1], port |-> DecimalValue[tok[3]]])
    ELSE IF Len(tok) = 5 /\ tok[1] = "[" /\ tok[2] \in IPv6Lits /\ tok[3] = "]"
            /\ tok[4] = ":" /\ IsPort(tok[5])
    THEN Ok([ip |-> tok[2], port |-> DecimalValue[tok[5]]])
    ELSE Err("AddrParseError")

PortNumeral(n) == CHOOSE l \in DOMAIN DecimalValue : DecimalValue[l] = n

SocketAddrToString(a) ==
    IF a.ip \in IPv6Lits
    THEN <<"[", a.ip, "]", ":", PortNumeral(a.port)>>
    ELSE <<a.ip, ":", PortNumeral(a.port)>>

(***************************************************************************)
(* parse_exposed_port                                                      *)
(***************************************************************************)
MapErr(r, e) == IF r.ok THEN r ELSE Err(e)

(* faulty variants of FirstParsed: the last part instead of the first; a
   default address instead of None for no parts *)
FirstParsedLast(parts) ==
    IF parts = <<>> THEN <<>>
    ELSE <<MapErr(ParseSocketAddr(parts[Len(parts)]), "FailedToParsePorts")>>

FirstParsedNoDefault(parts) ==
    IF parts = <<>> THEN <<Ok([ip |-> "0.0.0.0", port |-> 5432])>>
    ELSE <<MapErr(ParseSocketAddr(parts[1]), "FailedToParsePorts")>>

(* parts.iter().map(parse).next(): the parse of the first part, if any *)
FirstParsed(parts) ==
    IF parts = <<>> THEN <<>>
    ELSE <<MapErr(ParseSocketAddr(parts[1]), "FailedToParsePorts")>>

parse_exposed_port(s) ==
    LET parts == FilterNonEmpty(MapTrim(SplitWhitespace(s)))
        first == FirstParsed(parts)
    IN  IF first = <<>> THEN Err("FailedToParsePorts") ELSE first[1]

(***************************************************************************)
(* run_cmd_to_output, run_cmd                                              *)
(* A process outcome p: p.spawned is whether command.output() returned Ok, *)
(* p.utf8 whether the captured stdout bytes are valid UTF-8, p.stdout the  *)
(* text they decode to, p.status the exit status.                          *)
(***************************************************************************)
FromUtf8(p) == IF p.utf8 THEN Ok(p.stdout) ELSE Err("InvalidOutput")

(* faulty variants of run_cmd_to_output: one that reports a spawn failure and
   a non-zero exit status as errors; one that forgets the trim *)
run_cmd_to_output_strict(p) ==
    IF ~p.spawned THEN Err("InvalidOutput")
    ELSE IF p.status # 0 THEN Err("InvalidOutput")
    ELSE LET utf == FromUtf8(p)
         IN  IF ~utf.ok THEN utf ELSE Ok(Trim(Unwrap(utf)))

run_cmd_to_output_untrimmed(p) ==
    IF ~p.spawned THEN Ok(<<>>)
    ELSE FromUtf8(p)

run_cmd_to_output(p) ==
    IF ~p.spawned THEN Ok(<<>>)
    ELSE LET utf == FromUtf8(p)
         IN  IF ~utf.ok THEN utf ELSE Ok(Trim(Unwrap(utf)))

run_cmd(p) ==
    LET r == run_cmd_to_output(p)
    IN  IF r.ok THEN Ok("unit") ELSE r

(* what the two functions write to standard error *)
run_cmd_to_output_log(p) ==
    IF p.spawned /\ ~p.utf8 THEN <<"Failed to parse command output">> ELSE <<>>

parse_exposed_port_log(s) ==
    LET parts == FilterNonEmpty(MapTrim(SplitWhitespace(s)))
    IN  IF parts # <<>> /\ ~ParseSocketAddr(parts[1]).ok
        THEN <<"Failed to parse socket addr">> ELSE <<>>

(***************************************************************************)
(* Command lines (format! at lines 30, 34, 57, 62) and their argv          *)
(***************************************************************************)
StartCmd ==
    <<"docker", " ", "run", " ", "--rm", " ", "-d", " ", "-e", " ",
      "POSTGRES_HOST_AUTH_METHOD=trust", " ", "-p", " ", "5432", " ", "postgres">>

(* faulty variant of PortCmd: the identity is left out *)
PortCmdNoId(id) == <<"docker", " ", "container", " ", "port", " ", "5432">>

PortCmd(id) == <<"docker", " ", "container", " ", "port", " ">> \o id \o <<" ", "5432">>

(* faulty variant of StopCmd: a fixed container instead of the handle's own *)
StopCmdFixed(id) == <<"docker", " ", "stop", " ", "1">>

StopCmd(id) == <<"docker", " ", "stop", " ">> \o id

(* faulty variant of RmCmd: a second stop instead of the remove *)
RmCmdAsStop(id) == <<"docker", " ", "stop", " ">> \o id

RmCmd(id) == <<"docker", " ", "rm", " ">> \o id

Args(cmd_str) == SplitSpace(cmd_str)

(***************************************************************************)
(* State                                                                   *)
(***************************************************************************)
Tasks == 1..NumTasks

IdLex(t) == ToString(t)

ContainerIds == {IdLex(t) : t \in Tasks}

VARIABLES
    pc,            \* where each task is: in spawn, holding the handle, in drop
    container_id,  \* spawn's local container_id
    exposed_port,  \* spawn's local exposed_port
    socket_addr,   \* spawn's local socket_addr
    result,        \* what spawn returned: "none", "ok" or the error
    handle,        \* the Postgres value spawn returned: <<>> or <<[container_id, socket_addr]>>
    containers,    \* the runtime: each container "absent", "running" or "exited"
    listening,     \* the containers whose postgres accepts connections
    issued,        \* per task, the argv of every process it asked to spawn
    steps,         \* per task, the steps of spawn and drop it ran
    stderr,        \* per task, what it wrote to standard error
    panicked,      \* the tasks whose drop panicked
    acted,         \* per task, the teardown commands the runtime carried out
    ret,           \* per task, what the last accessor call on its live handle returned
    fn_pc, parse_in, parse_out, cmd_in, cmd_out  \* a single call of a free function

sysvars == <<pc, container_id, exposed_port, socket_addr, result, handle,
             containers, listening, issued, steps, stderr, panicked, acted, ret>>

fnvars == <<fn_pc, parse_in, parse_out, cmd_in, cmd_out>>

vars == <<sysvars, fnvars>>

NoProc == [spawned |-> FALSE, utf8 |-> TRUE, stdout |-> <<>>, status |-> 0]

NoRet == [fn |-> "none", addr |-> <<>>, text |-> <<>>]

SysInit ==
    /\ pc = [t \in Tasks |-> "start"]
    /\ container_id = [t \in Tasks |-> <<>>]
    /\ exposed_port = [t \in Tasks |-> <<>>]
    /\ socket_addr = [t \in Tasks |-> <<>>]
    /\ result = [t \in Tasks |-> "none"]
    /\ handle = [t \in Tasks |-> <<>>]
    /\ containers = [c \in ContainerIds |-> "absent"]
    /\ listening = {}
    /\ issued = [t \in Tasks |-> <<>>]
    /\ steps = [t \in Tasks |-> <<>>]
    /\ stderr = [t \in Tasks |-> <<>>]
    /\ panicked = {}
    /\ acted = [t \in Tasks |-> {}]
    /\ ret = [t \in Tasks |-> NoRet]

FnIdle ==
    /\ fn_pc = "off"
    /\ parse_in = <<>>
    /\ parse_out = Err("none")
    /\ cmd_in = NoProc
    /\ cmd_out = Err("none")

Init == SysInit /\ FnIdle

(***************************************************************************)
(* The container runtime behind the docker CLI                             *)
(***************************************************************************)
(* the container an argv <<docker, verb, id>> names, if it names one *)
Target(args, verb) ==
    IF /\ Len(args) = 3
       /\ args[1] = <<"docker">>
       /\ args[2] = <<verb>>
       /\ Len(args[3]) = 1
       /\ args[3][1] \in ContainerIds
    THEN {args[3][1]} ELSE {}

(* docker stop: a running container exits *)
RuntimeStop(cs, args) ==
    [c \in ContainerIds |->
        IF c \in Target(args, "stop") /\ cs[c] = "running" THEN "exited" ELSE cs[c]]

(* docker rm: an exited container is removed; a running one is refused *)
RuntimeRm(cs, args) ==
    [c \in ContainerIds |->
        IF c \in Target(args, "rm") /\ cs[c] = "exited" THEN "absent" ELSE cs[c]]

(* the outcomes of a process: it cannot be spawned, or it runs and prints out *)
NotSpawned == {NoProc}

Printed(out, st) == [spawned |-> TRUE, utf8 |-> TRUE, stdout |-> out, status |-> st]

NonText == [spawned |-> TRUE, utf8 |-> FALSE, stdout |-> <<>>, status |-> 0]

(* docker run -d: prints the new container's id and a newline *)
StartOutcomes(t) ==
    {[p |-> q, created |-> FALSE] : q \in NotSpawned \cup {NonText, Printed(<<>>, 125)}}
    \cup {[p |-> Printed(<<IdLex(t), "\n">>, 0), created |-> TRUE]}

(* docker container port: prints the host bindings, one per line *)
PortStdouts ==
    { <<>>,
      <<"0.0.0.0", ":", "55837", "\n", "[", "::", "]", ":", "55837", "\n">> }

PortOutcomes ==
    NotSpawned \cup {NonText} \cup {Printed(o, IF o = <<>> THEN 1 ELSE 0) : o \in PortStdouts}

(* docker stop / docker rm: the runtime acts on the command or not *)
TeardownOutcomes ==
    {[p |-> q, exec |-> FALSE] : q \in NotSpawned \cup {NonText, Printed(<<>>, 1)}}
    \cup {[p |-> Printed(<<>>, 0), exec |-> TRUE]}

(***************************************************************************)
(* Postgres::spawn, one action per step                                    *)
(***************************************************************************)
Start(t) ==
    /\ pc[t] = "start"
    /\ \E o \in StartOutcomes(t) :
        LET r == run_cmd_to_output(o.p) IN
        /\ containers' = IF o.created
                         THEN [containers EXCEPT ![IdLex(t)] = "running"]
                         ELSE containers
        /\ stderr' = [stderr EXCEPT ![t] = @ \o run_cmd_to_output_log(o.p)]
        /\ IF r.ok
           THEN /\ container_id' = [container_id EXCEPT ![t] = Unwrap(r)]
                /\ pc' = [pc EXCEPT ![t] = "port"]
                /\ UNCHANGED result
           ELSE /\ result' = [result EXCEPT ![t] = r.err]
                /\ pc' = [pc EXCEPT ![t] = "failed"]
                /\ UNCHANGED container_id
    /\ issued' = [issued EXCEPT ![t] = Append(@, Args(StartCmd))]
    /\ steps' = [steps EXCEPT ![t] = Append(@, "start")]
    /\ UNCHANGED <<exposed_port, socket_addr, handle, listening, panicked, acted, ret, fnvars>>

PortQuery(t) ==
    /\ pc[t] = "port"
    /\ \E p \in PortOutcomes :
        LET r == run_cmd_to_output(p) IN
        /\ stderr' = [stderr EXCEPT ![t] = @ \o run_cmd_to_output_log(p)]
        /\ IF r.ok
           THEN /\ exposed_port' = [exposed_port EXCEPT ![t] = Unwrap(r)]
                /\ pc' = [pc EXCEPT ![t] = "parse"]
                /\ UNCHANGED result
           ELSE /\ result' = [result EXCEPT ![t] = r.err]
                /\ pc' = [pc EXCEPT ![t] = "failed"]
                /\ UNCHANGED exposed_port
    /\ issued' = [issued EXCEPT ![t] = Append(@, Args(PortCmd(container_id[t])))]
    /\ steps' = [steps EXCEPT ![t] = Append(@, "port")]
    /\ UNCHANGED <<container_id, socket_addr, handle, containers, listening,
                   panicked, acted, ret, fnvars>>

(* variant of Parse that stops the started container when the parse fails *)
ParseWithCleanup(t) ==
    /\ pc[t] = "parse"
    /\ LET r == parse_exposed_port(exposed_port[t]) IN
        /\ stderr' = [stderr EXCEPT ![t] = @ \o parse_exposed_port_log(exposed_port[t])]
        /\ IF r.ok
           THEN /\ socket_addr' = [socket_addr EXCEPT ![t] = <<Unwrap(r)>>]
                /\ pc' = [pc EXCEPT ![t] = "sleep"]
                /\ UNCHANGED <<result, issued>>
           ELSE /\ result' = [result EXCEPT ![t] = r.err]
                /\ pc' = [pc EXCEPT ![t] = "failed"]
                /\ issued' = [issued EXCEPT ![t] = Append(@, Args(StopCmd(container_id[t])))]
                /\ UNCHANGED socket_addr
    /\ steps' = [steps EXCEPT ![t] = Append(@, "parse")]
    /\ UNCHANGED <<container_id, exposed_port, handle, containers, listening,
                   panicked, acted, ret, fnvars>>

Parse(t) ==
    /\ pc[t] = "parse"
    /\ LET r == parse_exposed_port(exposed_port[t]) IN
        /\ stderr' = [stderr EXCEPT ![t] = @ \o parse_exposed_port_log(exposed_port[t])]
        /\ IF r.ok
           THEN /\ socket_addr' = [socket_addr EXCEPT ![t] = <<Unwrap(r)>>]
                /\ pc' = [pc EXCEPT ![t] = "sleep"]
                /\ UNCHANGED result
           ELSE /\ result' = [result EXCEPT ![t] = r.err]
                /\ pc' = [pc EXCEPT ![t] = "failed"]
                /\ UNCHANGED socket_addr
    /\ steps' = [steps EXCEPT ![t] = Append(@, "parse")]
    /\ UNCHANGED <<container_id, exposed_port, handle, containers, listening, issued,
                   panicked, acted, ret, fnvars>>

(* variant of Sleep that waits by running a readiness probe as a subprocess *)
SleepProbing(t) ==
    /\ pc[t] = "sleep"
    /\ pc' = [pc EXCEPT ![t] = "construct"]
    /\ steps' = [steps EXCEPT ![t] = Append(@, "sleep")]
    /\ issued' = [issued EXCEPT ![t] = Append(@, Args(<<"pg_isready">>))]
    /\ UNCHANGED <<container_id, exposed_port, socket_addr, result, handle, containers,
                   listening, stderr, panicked, acted, ret, fnvars>>

(* std::thread::sleep(2 s) *)
Sleep(t) ==
    /\ pc[t] = "sleep"
    /\ pc' = [pc EXCEPT ![t] = "construct"]
    /\ steps' = [steps EXCEPT ![t] = Append(@, "sleep")]
    /\ UNCHANGED <<container_id, exposed_port, socket_addr, result, handle, containers,
                   listening, issued, stderr, panicked, acted, ret, fnvars>>

Construct(t) ==
    /\ pc[t] = "construct"
    /\ handle' = [handle EXCEPT ![t] =
                    <<[container_id |-> container_id[t], socket_addr |-> socket_addr[t][1]]>>]
    /\ result' = [result EXCEPT ![t] = "ok"]
    /\ pc' = [pc EXCEPT ![t] = "alive"]
    /\ steps' = [steps EXCEPT ![t] = Append(@, "construct")]
    /\ UNCHANGED <<container_id, exposed_port, socket_addr, containers, listening,
                   issued, stderr, panicked, acted, ret, fnvars>>

(***************************************************************************)
(* The accessors of a live handle                                          *)
(***************************************************************************)
Postgres_socket_addr(h) == h.socket_addr

(* faulty variant of Postgres_address: the host without the port *)
Postgres_address_host(h) == <<h.socket_addr.ip>>

Postgres_address(h) == SocketAddrToString(h.socket_addr)

CallSocketAddr(t) ==
    /\ pc[t] = "alive"
    /\ ret' = [ret EXCEPT ![t] = [fn |-> "socket_addr",
                                  addr |-> <<Postgres_socket_addr(handle[t][1])>>,
                                  text |-> <<>>]]
    /\ UNCHANGED <<pc, container_id, exposed_port, socket_addr, result, handle,
                   containers, listening, issued, steps, stderr, panicked, acted, fnvars>>

CallAddress(t) ==
    /\ pc[t] = "alive"
    /\ ret' = [ret EXCEPT ![t] = [fn |-> "address",
                                  addr |-> <<>>,
                                  text |-> Postgres_address(handle[t][1])]]
    /\ UNCHANGED <<pc, container_id, exposed_port, socket_addr, result, handle,
                   containers, listening, issued, steps, stderr, panicked, acted, fnvars>>

(***************************************************************************)
(* impl Drop for Postgres, one action per command                          *)
(***************************************************************************)
(* faulty variant of IfLetErr: run_cmd(..).unwrap() *)
IfLetErrUnwrap(r, msg) == [log |-> <<>>, panic |-> ~r.ok]

(* faulty variant of IfLetErr: the error is logged and teardown is aborted *)
IfLetErrAbort(r, msg) == [log |-> IF r.ok THEN <<>> ELSE <<msg>>, panic |-> ~r.ok]

(* if let Err(err) = run_cmd(..) { eprintln!(..) } *)
IfLetErr(r, msg) == [log |-> IF r.ok THEN <<>> ELSE <<msg>>, panic |-> FALSE]

DropStop(t) ==
    /\ pc[t] = "alive"
    /\ \E o \in TeardownOutcomes :
        LET args == Args(StopCmd(handle[t][1].container_id))
            h == IfLetErr(run_cmd(o.p), "Failed to stop docker container")
        IN
        /\ issued' = [issued EXCEPT ![t] = Append(@, args)]
        /\ containers' = IF o.exec THEN RuntimeStop(containers, args) ELSE containers
        /\ stderr' = [stderr EXCEPT ![t] = @ \o run_cmd_to_output_log(o.p) \o h.log]
        /\ pc' = [pc EXCEPT ![t] = IF h.panic THEN "panicked" ELSE "removing"]
        /\ panicked' = IF h.panic THEN panicked \cup {t} ELSE panicked
        /\ acted' = IF o.exec THEN [acted EXCEPT ![t] = @ \cup {"stop"}] ELSE acted
    /\ steps' = [steps EXCEPT ![t] = Append(@, "stop")]
    /\ listening' = {c \in listening : containers'[c] = "running"}
    /\ ret' = [ret EXCEPT ![t] = NoRet]
    /\ UNCHANGED <<container_id, exposed_port, socket_addr, result, handle,
                   fnvars>>

DropRemove(t) ==
    /\ pc[t] = "removing"
    /\ \E o \in TeardownOutcomes :
        LET args == Args(RmCmd(handle[t][1].container_id))
            h == IfLetErr(run_cmd(o.p), "Failed to remove docker container")
        IN
        /\ issued' = [issued EXCEPT ![t] = Append(@, args)]
        /\ containers' = IF o.exec THEN RuntimeRm(containers, args) ELSE containers
        /\ stderr' = [stderr EXCEPT ![t] = @ \o run_cmd_to_output_log(o.p) \o h.log]
        /\ pc' = [pc EXCEPT ![t] = IF h.panic THEN "panicked" ELSE "dropped"]
        /\ panicked' = IF h.panic THEN panicked \cup {t} ELSE panicked
        /\ acted' = IF o.exec THEN [acted EXCEPT ![t] = @ \cup {"rm"}] ELSE acted
    /\ steps' = [steps EXCEPT ![t] = Append(@, "rm")]
    /\ UNCHANGED <<container_id, exposed_port, socket_addr, result, handle, listening,
                   ret, fnvars>>

(***************************************************************************)
(* What the runtime does on its own                                        *)
(***************************************************************************)
(* postgres inside a running container starts accepting connections *)
PostgresReady(c) ==
    /\ containers[c] = "running"
    /\ c \notin listening
    /\ listening' = listening \cup {c}
    /\ UNCHANGED <<pc, container_id, exposed_port, socket_addr, result, handle,
                   containers, issued, steps, stderr, panicked, acted, ret, fnvars>>

(* --rm: the runtime removes a container once it has exited *)
AutoRemove(c) ==
    /\ containers[c] = "exited"
    /\ containers' = [containers EXCEPT ![c] = "absent"]
    /\ UNCHANGED <<pc, container_id, exposed_port, socket_addr, result, handle,
                   listening, issued, steps, stderr, panicked, acted, ret, fnvars>>

Next ==
    \/ \E t \in Tasks : Start(t)
    \/ \E t \in Tasks : PortQuery(t)
    \/ \E t \in Tasks : Parse(t)
    \/ \E t \in Tasks : Sleep(t)
    \/ \E t \in Tasks : Construct(t)
    \/ \E t \in Tasks : CallSocketAddr(t)
    \/ \E t \in Tasks : CallAddress(t)
    \/ \E t \in Tasks : DropStop(t)
    \/ \E t \in Tasks : DropRemove(t)
    \/ \E c \in ContainerIds : PostgresReady(c)
    \/ \E c \in ContainerIds : AutoRemove(c)

Spec == Init /\ [][Next]_vars

(***************************************************************************)
(* A single call of parse_exposed_port or of run_cmd_to_output on an input *)
(* drawn from a bounded set                                                *)
(***************************************************************************)
RECURSIVE WsSeqs(_)
WsSeqs(n) ==
    IF n = 0 THEN {<<>>}
    ELSE WsSeqs(n - 1) \cup {Append(w, c) : w \in WsSeqs(n - 1), c \in Whitespace}

Pads == WsSeqs(MaxPad)

ValidTokens ==
    { <<"0.0.0.0", ":", "12345">>,
      <<"[", "::", "]", ":", "12345">>,
      <<"[", "::", "]", ":", "54321">> }

MalformedTokens ==
    { <<"0.0.0.0", ":", "70000">>,
      <<"Error:">> }

TokenSet == ValidTokens \cup MalformedTokens

(* what separates two tokens; the empty separator glues them into one *)
Seps == { <<>>, <<" ">>, <<" ", "\n", " ">> }

(* n tokens with a separator before each but the first *)
RECURSIVE Joined(_)
Joined(n) ==
    IF n = 0 THEN {<<>>}
    ELSE IF n = 1 THEN TokenSet
    ELSE {x \o sep \o tok : x \in Joined(n - 1), sep \in Seps, tok \in TokenSet}

TextsWith(n) ==
    {lead \o body \o trail : lead \in Pads, body \in Joined(n), trail \in Pads}

ParseInputs == UNION {TextsWith(n) : n \in 0..MaxTokens}

ProcOutcomes ==
    [spawned : BOOLEAN, utf8 : BOOLEAN, stdout : TextsWith(1), status : {0, 1}]

FnInit ==
    /\ SysInit
    /\ parse_out = Err("none")
    /\ cmd_out = Err("none")
    /\ \/ fn_pc = "parse" /\ parse_in \in ParseInputs /\ cmd_in = NoProc
       \/ fn_pc = "run" /\ parse_in = <<>> /\ cmd_in \in ProcOutcomes

CallParse ==
    /\ fn_pc = "parse"
    /\ parse_out' = parse_exposed_port(parse_in)
    /\ fn_pc' = "parsed"
    /\ UNCHANGED <<sysvars, parse_in, cmd_in, cmd_out>>

CallRunCmd ==
    /\ fn_pc = "run"
    /\ cmd_out' = run_cmd_to_output(cmd_in)
    /\ fn_pc' = "ran"
    /\ UNCHANGED <<sysvars, parse_in, parse_out, cmd_in>>

FnNext == CallParse \/ CallRunCmd

FnSpec == FnInit /\ [][FnNext]_vars

(***************************************************************************)
(* Claims about spawn and drop                                             *)
(***************************************************************************)
IsPrefix(a, b) == Len(a) <= Len(b) /\ SubSeq(b, 1, Len(a)) = a

IsTeardownCmd(a) == Len(a) >= 2 /\ a[2] \in {<<"stop">>, <<"rm">>}

TeardownCmds(t) == SelectSeq(issued[t], IsTeardownCmd)

HasHandle(t) == handle[t] # <<>>

(* the state of the container an identity names; "absent" when it names none *)
ContainerNamed(id) ==
    IF Len(id) = 1 /\ id[1] \in ContainerIds THEN containers[id[1]] ELSE "absent"

(* C1: dropping a handle issues exactly one stop and then exactly one remove,
   each naming the identity the start command returned at launch, and nothing
   else; before the drop no teardown command is issued. *)
C1_StopThenRemoveOnce ==
    \A t \in Tasks :
        LET id == container_id[t]
            stop == << <<"docker">>, <<"stop">>, id >>
            rm == << <<"docker">>, <<"rm">>, id >>
        IN
        /\ pc[t] \notin {"removing", "dropped"} => TeardownCmds(t) = <<>>
        /\ pc[t] = "removing" => TeardownCmds(t) = <<stop>>
        /\ pc[t] = "dropped" => TeardownCmds(t) = <<stop, rm>>
        /\ HasHandle(t) => handle[t][1].container_id = id
        /\ HasHandle(t) /\ containers[IdLex(t)] # "absent" => id = <<IdLex(t)>>

C1_Witness ==
    \E t \in Tasks :
        /\ pc[t] = "dropped"
        /\ container_id[t] = <<IdLex(t)>>
        /\ Len(TeardownCmds(t)) = 2

(* C2: drop never panics, whatever the stop and remove commands did, also
   when a second handle with the same identity is dropped afterwards. *)
C2_DropNeverPanics ==
    /\ panicked = {}
    /\ \A t \in Tasks :
        /\ pc[t] # "panicked"
        /\ pc[t] = "alive" => ENABLED DropStop(t)
        /\ pc[t] = "removing" => ENABLED DropRemove(t)

C2_Witness ==
    \E t, u \in Tasks :
        /\ t # u
        /\ pc[t] = "dropped" /\ pc[u] = "dropped"
        /\ handle[t][1].container_id = handle[u][1].container_id
        /\ Len(stderr[t]) = 4
        /\ acted[u] = {}

SpawnSteps == <<"start", "port", "parse", "sleep", "construct">>

IsSpawnStep(x) == x \in {SpawnSteps[i] : i \in 1..Len(SpawnSteps)}

SpawnPart(t) == SelectSeq(steps[t], IsSpawnStep)

C4_SpawnStepOrder ==
    \A t \in Tasks :
        LET done == SpawnPart(t) IN
        /\ IsPrefix(done, SpawnSteps)
        /\ IsPrefix(done, steps[t])
        /\ Len(issued[t]) >= 1 =>
              issued[t][1] = Args(StartCmd) /\ Len(done) >= 1
        /\ Len(issued[t]) >= 2 =>
              /\ issued[t][2] = << <<"docker">>, <<"container">>, <<"port">>,
                                   container_id[t], <<"5432">> >>
              /\ Len(done) >= 2
        /\ pc[t] = "failed" =>
              /\ ~HasHandle(t)
              /\ Len(done) \in 1..3
              /\ Len(steps[t]) = Len(done)
              /\ Len(issued[t]) = (IF Len(done) = 1 THEN 1 ELSE 2)
              /\ result[t] = (IF Len(done) = 3 THEN "FailedToParsePorts"
                              ELSE "InvalidOutput")
        /\ HasHandle(t) => done = SpawnSteps /\ result[t] = "ok"
        /\ pc[t] # "failed" /\ ~HasHandle(t) => result[t] = "none"

C4_Witness ==
    \E t, u \in Tasks :
        /\ pc[t] = "failed" /\ result[t] = "FailedToParsePorts"
        /\ container_id[t] = <<IdLex(t)>>
        /\ HasHandle(u) /\ container_id[u] = <<IdLex(u)>>

(* C5 as claimed: the identity of every handle spawn returns is non-empty. *)
C5_IdentityNonEmpty ==
    \A t \in Tasks : HasHandle(t) => handle[t][1].container_id # <<>>

Listens(id) == Len(id) = 1 /\ id[1] \in listening

(* C6 as claimed: whenever spawn returns a handle, the container it names is
   accepting connections at that moment (it was seen listening before the
   return). *)
C6_ListeningBeforeReturn ==
    [][\A t \in Tasks : ~HasHandle(t) /\ HasHandle(t)' => Listens(container_id[t])]_vars

(***************************************************************************)
(* Claims about parse_exposed_port and run_cmd_to_output                   *)
(***************************************************************************)
(* the address each well-formed token of the model denotes *)
AddrOf ==
    (<<"0.0.0.0", ":", "12345">> :> [ip |-> "0.0.0.0", port |-> 12345]) @@
    (<<"[", "::", "]", ":", "12345">> :> [ip |-> "::", port |-> 12345]) @@
    (<<"[", "::", "]", ":", "54321">> :> [ip |-> "::", port |-> 54321])

IsValidToken(tok) == tok \in DOMAIN AddrOf

TokensOf(text) == SplitWhitespace(text)

ValidTokensOf(text) == SelectSeq(TokensOf(text), IsValidToken)

(* C7 as claimed: the result is the first token that is a valid socket
   address, malformed tokens before it being skipped. *)
C7_SkipsMalformedTokens ==
    fn_pc = "parsed" /\ ValidTokensOf(parse_in) # <<>>
        => parse_out = Ok(AddrOf[ValidTokensOf(parse_in)[1]])

(* C8: when every token of the input is a valid socket address and there
   are several, the result is the first one in input order. *)
C8_FirstOfSeveralWins ==
    fn_pc = "parsed"
    /\ Len(TokensOf(parse_in)) >= 2
    /\ ValidTokensOf(parse_in) = TokensOf(parse_in)
        => parse_out = Ok(AddrOf[TokensOf(parse_in)[1]])

C8_Witness ==
    /\ fn_pc = "parsed"
    /\ parse_in = <<"0.0.0.0", ":", "12345", " ", "\n", " ", "[", "::", "]", ":", "54321">>
    /\ parse_out.ok
    /\ parse_out.val[1].port = 12345

(* C9: the empty input, a whitespace-only input and an input none of whose
   tokens is a valid socket address all yield FailedToParsePorts. *)
C9_NoValidTokenFails ==
    fn_pc = "parsed" /\ ValidTokensOf(parse_in) = <<>>
        => parse_out = Err("FailedToParsePorts")

C9_Witness ==
    /\ fn_pc = "parsed"
    /\ parse_in = <<"\n">>
    /\ ~parse_out.ok

(* C10: run_cmd_to_output fails only with InvalidOutput and only when the
   process ran and its stdout is not UTF-8; a process that cannot be spawned
   gives the empty string, and the exit status never makes an error. *)
C10_OnlyInvalidOutput ==
    fn_pc = "ran" =>
        /\ ~cmd_out.ok => cmd_out.err = "InvalidOutput" /\ cmd_in.spawned /\ ~cmd_in.utf8
        /\ ~cmd_in.spawned => cmd_out = Ok(<<>>)
        /\ cmd_in.spawned /\ cmd_in.utf8 => cmd_out.ok

C10_Witness ==
    /\ fn_pc = "ran"
    /\ cmd_in.spawned /\ cmd_in.utf8 /\ cmd_in.status = 1
    /\ cmd_in.stdout # <<>>
    /\ cmd_out.ok

(***************************************************************************)
(* Claims about failure paths, logging and isolation                       *)
(***************************************************************************)
(* the teardown commands, of any task, that name the identity id *)
TeardownNaming(id) ==
    UNION {{<<u, i>> : i \in {j \in DOMAIN issued[u] :
                                 /\ IsTeardownCmd(issued[u][j])
                                 /\ issued[u][j][3] = id}} : u \in Tasks}

StartedContainer(t) == container_id[t] = <<IdLex(t)>>

(* C11: when the start command started a container and the port query or
   the parse then fails, spawn returns an error and no handle, and no stop or
   remove command naming that container is issued by anyone; the container
   stays as the runtime left it. *)
C11_LeakOnPartialFailure ==
    \A t \in Tasks :
        pc[t] = "failed" /\ StartedContainer(t) =>
            /\ ~HasHandle(t)
            /\ result[t] \in {"InvalidOutput", "FailedToParsePorts"}
            /\ TeardownNaming(container_id[t]) = {}
            /\ Len(issued[t]) = 2
            /\ containers[IdLex(t)] = "running"

C11_Witness ==
    \E t, u \in Tasks :
        /\ pc[t] = "failed" /\ StartedContainer(t)
        /\ result[t] = "FailedToParsePorts"
        /\ pc[u] = "dropped"
        /\ containers[IdLex(t)] = "running"

Logged(t, msg) == \E i \in DOMAIN stderr[t] : stderr[t][i] = msg

(* C12 as claimed: a stop or remove command of a teardown that the runtime
   did not carry out (it could not be invoked, or it was refused) leaves its
   failure message on standard error. *)
C12_TeardownFailuresLogged ==
    \A t \in Tasks :
        /\ pc[t] \in {"removing", "dropped"} /\ "stop" \notin acted[t]
              => Logged(t, "Failed to stop docker container")
        /\ pc[t] = "dropped" /\ "rm" \notin acted[t]
              => Logged(t, "Failed to remove docker container")

(* C13: a stop that reported an error neither aborts the teardown nor
   suppresses the remove: the drop goes on, the remove command can be issued
   and, once the drop is over, it has been issued for the same identity. *)
C13_RemoveAfterFailedStop ==
    \A t \in Tasks :
        /\ Logged(t, "Failed to stop docker container") =>
              /\ pc[t] \in {"removing", "dropped"}
              /\ pc[t] = "removing" => ENABLED DropRemove(t)
        /\ pc[t] = "dropped" =>
              issued[t][Len(issued[t])]
                  = << <<"docker">>, <<"rm">>, handle[t][1].container_id >>

C13_Witness ==
    \E t \in Tasks :
        /\ pc[t] = "dropped"
        /\ Logged(t, "Failed to stop docker container")
        /\ StartedContainer(t)
        /\ acted[t] = {"rm"}

(* C14 as claimed: a successful spawn has made three subprocess round-trips
   when it reaches the settling delay and when it returns the handle. *)
C14_ThreeRoundTrips ==
    \A t \in Tasks :
        pc[t] \in {"sleep", "construct", "alive"} => Len(issued[t]) = 3

(* C14 as amended: a successful spawn has made exactly two subprocess
   round-trips, docker run and docker container port, when it reaches the
   settling delay and when it returns the handle; the parse spawns nothing. *)
C14_TwoRoundTrips ==
    \A t \in Tasks :
        pc[t] \in {"sleep", "construct", "alive"} =>
            /\ Len(issued[t]) = 2
            /\ SubSeq(issued[t][1], 1, 2) = << <<"docker">>, <<"run">> >>
            /\ SubSeq(issued[t][2], 1, 3) = << <<"docker">>, <<"container">>, <<"port">> >>

C14_Witness ==
    \E t \in Tasks :
        /\ pc[t] = "alive"
        /\ StartedContainer(t)
        /\ Len(issued[t]) = 2
        /\ steps[t] = SpawnSteps

(* the start step of t ends without a started container and without an
   InvalidOutput report: the process could not be spawned, or printed nothing *)
StartYieldsNothing(t) ==
    /\ pc[t] = "start" /\ pc'[t] # "start"
    /\ containers' = containers
    /\ stderr'[t] = stderr[t]

EmptyIdentityPath(t) ==
    /\ Len(issued[t]) >= 2 /\ container_id[t] = <<>> =>
          issued[t][2] = << <<"docker">>, <<"container">>, <<"port">>, <<>>, <<"5432">> >>
    /\ Len(steps[t]) >= 3 /\ container_id[t] = <<>>
       /\ ~parse_exposed_port(exposed_port[t]).ok =>
          /\ pc[t] = "failed"
          /\ result[t] = "FailedToParsePorts"
          /\ ~HasHandle(t)

(* C15: when the start command cannot be spawned, spawn does not fail at the
   start step but goes on with the empty identity; the port query is issued
   with an empty identity argument, and when its output holds no parseable
   address spawn returns FailedToParsePorts and no handle. *)
C15_SpawnFailureSurfacesAtParse ==
    /\ [](\A t \in Tasks : EmptyIdentityPath(t))
    /\ [][\A t \in Tasks :
            StartYieldsNothing(t) =>
                /\ pc'[t] = "port"
                /\ container_id'[t] = <<>>
                /\ result'[t] = "none"]_vars

C15_Witness ==
    \E t \in Tasks :
        /\ pc[t] = "failed"
        /\ container_id[t] = <<>>
        /\ Len(issued[t]) = 2
        /\ issued[t][2][4] = <<>>
        /\ result[t] = "FailedToParsePorts"
        /\ containers[IdLex(t)] = "absent"

(* task t takes a step of its drop *)
DropStepOf(t) == pc[t] \in {"alive", "removing"} /\ pc'[t] # pc[t]

(* C16: a step of one handle's drop issues a single stop or remove command
   that names that handle's identity, changes no container but the one that
   identity names, and leaves the handle (identity and endpoint), the
   commands and the container of every other task as they were. *)
C16_DropTouchesOnlyItsOwn ==
    [][\A t \in Tasks :
        DropStepOf(t) =>
            LET id == handle[t][1].container_id
                cmd == issued'[t][Len(issued'[t])]
            IN
            /\ Len(issued'[t]) = Len(issued[t]) + 1
            /\ Len(cmd) = 3
            /\ cmd[2] \in {<<"stop">>, <<"rm">>}
            /\ cmd[3] = id
            /\ \A c \in ContainerIds : containers'[c] # containers[c] => id = <<c>>
            /\ \A u \in Tasks \ {t} :
                /\ handle'[u] = handle[u]
                /\ issued'[u] = issued[u]
                /\ containers'[IdLex(u)] = containers[IdLex(u)]
                /\ HasHandle(u) =>
                      ContainerNamed(handle[u][1].container_id)'
                          = ContainerNamed(handle[u][1].container_id)]_vars

C16_Witness ==
    \E t, u \in Tasks :
        /\ pc[t] = "dropped" /\ StartedContainer(t)
        /\ acted[t] = {"stop", "rm"}
        /\ pc[u] = "alive" /\ StartedContainer(u)
        /\ containers[IdLex(u)] = "running"
        /\ steps[t][Len(steps[t])] = "rm"

(* the host:port text of an address, brackets around an IPv6 host *)
HostPort(a) ==
    LET numeral == CHOOSE l \in DOMAIN DecimalValue : DecimalValue[l] = a.port
    IN  IF a.ip = "::" THEN <<"[", "::", "]", ":", numeral>> ELSE <<a.ip, ":", numeral>>

AccessorsAgree(t) ==
    /\ ret[t].fn # "none" => pc[t] = "alive"
    /\ ret[t].fn = "socket_addr" => ret[t].addr = <<socket_addr[t][1]>>
    /\ ret[t].fn = "address" =>
          /\ ret[t].text = HostPort(socket_addr[t][1])
          /\ ParseSocketAddr(ret[t].text) = Ok(handle[t][1].socket_addr)

(* C17: the identity and the endpoint of a handle are those spawn computed,
   no step (accessor call, teardown, or anything else) changes them once the
   handle exists, socket_addr returns the endpoint, and address returns the
   host:port text of that endpoint. *)
C17_HandleFieldsWriteOnce ==
    /\ [](\A t \in Tasks :
            /\ HasHandle(t) =>
                  handle[t][1] = [container_id |-> container_id[t],
                                  socket_addr |-> socket_addr[t][1]]
            /\ AccessorsAgree(t))
    /\ [][\A t \in Tasks : HasHandle(t) => handle'[t] = handle[t]]_vars

C17_Witness ==
    \E t, u \in Tasks :
        /\ pc[t] = "alive" /\ ret[t].fn = "address"
        /\ ret[t].text = <<"0.0.0.0", ":", "55837">>
        /\ pc[u] = "dropped" /\ StartedContainer(u)
        /\ handle[u][1].socket_addr.port = 55837

(***************************************************************************)
(* Claims about whitespace                                                 *)
(***************************************************************************)
Blank(l) == l = " " \/ l = "\n"

NoOuterWhitespace(text) ==
    text = <<>> \/ (~Blank(text[1]) /\ ~Blank(text[Len(text)]))

(* text is tok with nothing but spaces and newlines before and after it *)
PaddedToken(text, tok) ==
    \E k \in 1..Len(text) :
        /\ k + Len(tok) - 1 <= Len(text)
        /\ SubSeq(text, k, k + Len(tok) - 1) = tok
        /\ \A i \in 1..Len(text) : i < k \/ i >= k + Len(tok) => Blank(text[i])

(* C18: parsing a valid address token with any padding of spaces and
   newlines around it gives what parsing the bare token gives, and a
   successful result of run_cmd_to_output has no leading or trailing
   whitespace. *)
C18_PaddingIgnored ==
    /\ fn_pc = "parsed" =>
          \A tok \in DOMAIN AddrOf :
              PaddedToken(parse_in, tok) =>
                  /\ parse_out = parse_exposed_port(tok)
                  /\ parse_out = Ok(AddrOf[tok])
    /\ fn_pc = "ran" /\ cmd_out.ok => NoOuterWhitespace(Unwrap(cmd_out))

C18_Witness ==
    /\ fn_pc = "parsed"
    /\ parse_in = <<" ", "[", "::", "]", ":", "12345", "\n">>
    /\ parse_out = Ok([ip |-> "::", port |-> 12345])

=============================================================================
